---- MODULE Spec2Model ----
(***************************************************************************)
(* Model of app/src/main/cpp/native-lib.cpp: the two log2 lookup tables    *)
(* filled by initNative, the per-pixel escape loop and colour resolution   *)
(* of calculate_pixel_color, and the block loop of mandelbrotRenderBlock.  *)
(*                                                                         *)
(* Numbers.  jint values are integers with 32-bit wrap-around where the    *)
(* code adds them.  The doubles of the escape loop (c, z, magSq) take      *)
(* integer values here: the transforms and coordinates drawn below are     *)
(* integers, and on such values every double operation of the loop is      *)
(* exact.  The doubles of the smooth-colouring branch (log2 results, nu,   *)
(* continuousIndex, fraction) are fixed-point numbers with FixBits         *)
(* fractional bits: v stands for v / FixOne.                               *)
(***************************************************************************)
EXTENDS Integers, Sequences, FiniteSets, TLC

\* ------------------------------------------------------------------ bounds
MaxBlockWidth == 2
MaxBlockHeight == 2
MaxIter == 3

\* ------------------------------------------------------- program constants
TableSize == 65536
TableLast == TableSize - 1
MagDomainLow == 4
MagDomainSpan == 32
INT_MAX == 2147483647
INT_MIN == -2147483647 - 1

\* fixed-point representation of double in the smooth branch
FixBits == 10
FixOne == 2 ^ FixBits

\* initNative fills a table entry by entry; one step of the model performs
\* InitChunk consecutive iterations of the loop.
InitChunk == 32768

\* two host worker threads call the render entry point
Threads == {1, 2}

\* ------------------------------------------------------------ arithmetic
Min(a, b) == IF a < b THEN a ELSE b
Max(a, b) == IF a > b THEN a ELSE b

\* static_cast<int>(double) and integer division of C++: toward zero
TruncDiv(a, b) == IF a >= 0 THEN a \div b ELSE -((-a) \div b)

\* jint + jint with two's-complement wrap-around
AddInt32(a, b) ==
    IF a > 0 /\ b > INT_MAX - a THEN (a - INT_MAX - 1) + (b - INT_MAX - 1)
    ELSE IF a < 0 /\ b < INT_MIN - a THEN (a + INT_MAX + 1) + (b + INT_MAX + 1)
    ELSE a + b

\* a % m of C++ for m > 0: the sign of the result is the sign of a
RemInt32(a, m) ==
    IF a >= 0 THEN a % m
    ELSE IF a = INT_MIN THEN -((-(a + m)) % m)
    ELSE -((-a) % m)

\* ((k + colorOffset) % n + n) % n, lines 95, 96, 105
WrapIndex(k, colorOffset, n) ==
    RemInt32(AddInt32(RemInt32(AddInt32(k, colorOffset), n), n), n)

\* ---------------------------------------------------------------- Colors
ColorR(color) == (color \div 65536) % 256
ColorG(color) == (color \div 256) % 256
ColorB(color) == color % 256
ColorRgb(r, g, b) == -16777216 + r * 65536 + g * 256 + b

\* ------------------------------------------------------------------ log2
\* std::log2 on a fixed-point argument, result in fixed point (binary
\* logarithm by repeated squaring, truncated to FixBits bits).  log2(0.0) is
\* -infinity: LogOfZero lies below every finite logarithm of the model.  No
\* argument <= 0 is reached by the inputs drawn below.
\* {body : local \in {value}} computes a local once; Only takes the result
Only(S) == CHOOSE e \in S : TRUE

RECURSIVE Log2Norm(_, _)
Log2Norm(v, e) ==
    Only({IF w >= 2 * FixOne THEN Log2Norm(w \div 2, e + 1)
          ELSE IF w < FixOne THEN Log2Norm(w * 2, e - 1)
          ELSE <<w, e>> : w \in {v}})

RECURSIVE Log2Frac(_, _, _)
Log2Frac(v, bit, acc) ==
    IF bit = 0 THEN acc
    ELSE Only({IF sq >= 2 * FixOne
               THEN Log2Frac(sq \div 2, bit \div 2, acc + bit)
               ELSE Log2Frac(sq, bit \div 2, acc) : sq \in {(v * v) \div FixOne}})

LogOfZero == -(2 ^ 20)
Log2Fix(v) ==
    IF v > 0
    THEN LET n == Log2Norm(v, 0)
         IN n[2] * FixOne + Log2Frac(n[1], FixOne \div 2, 0)
    ELSE LogOfZero

\* ---------------------------------------------------------------- tables
\* value initNative stores at logMagnitudeLookupTable[i], lines 33-34
LogMagnitudeEntry(i) ==
    Log2Fix(MagDomainLow * FixOne + (i * MagDomainSpan * FixOne) \div TableLast)

\* value initNative stores at logLogLookupTable[i], lines 37-38
\* (1.585 is 1585/1000)
LogLogEntry(i) ==
    Log2Fix(FixOne + (((i * 1585) \div 1000) * FixOne) \div TableLast)

\* A table is held as the number of entries initNative has stored so far;
\* the vector is value-initialised, so an entry not yet stored reads 0.0 (as
\* does, here, a subscript outside the vector).
ReadLogMagnitude(populated, index) ==
    IF 0 <= index /\ index < populated THEN LogMagnitudeEntry(index) ELSE 0

ReadLogLog(populated, index) ==
    IF 0 <= index /\ index < populated THEN LogLogEntry(index) ELSE 0

\* -------------------------------------------------- calculate_pixel_color
\* while (i < maxIterations), line 55
LoopGuardInclusive(i, maxIterations) == i <= maxIterations
LoopGuard(i, maxIterations) == i < maxIterations

\* if (z_re_sq + z_im_sq > escapeRadiusSquared) break;  line 59
IsEscapedNonStrict(z_re, z_im, escapeRadiusSquared) ==
    z_re * z_re + z_im * z_im >= escapeRadiusSquared
IsEscaped(z_re, z_im, escapeRadiusSquared) ==
    z_re * z_re + z_im * z_im > escapeRadiusSquared

\* lines 63-65
NextZre(z_re, z_im, c_re) == z_re * z_re - z_im * z_im + c_re
NextZim(z_re, z_im, c_im) == 2 * z_re * z_im + c_im

\* lines 48-49
Cre(tr, x, y) == tr.zx_x * x + tr.zx_y * y + tr.zx_c
Cim(tr, x, y) == tr.zy_x * x + tr.zy_y * y + tr.zy_c

\* if (i == maxIterations), line 69
IsInteriorNever(i, maxIterations) == i > maxIterations
IsInterior(i, maxIterations) == i = maxIterations

\* std::max(0, std::min(index, 65535)), lines 80 and 83
ClampIndexUpperOnly(index) == Min(index, TableLast)
ClampIndex(index) == Max(0, Min(index, TableLast))

\* colorPalette[k]; a subscript outside the array reads an unspecified word,
\* here 0
PaletteRead(palette, k) ==
    IF k \in DOMAIN palette THEN palette[k] ELSE 0

\* a / b on fixed-point doubles
FixDiv(a, b) == TruncDiv(a * FixOne, b)

\* denominator of logMagnitudeScaleFactor: the argument stands for n / 32
MagScaleDen == MagDomainSpan

\* static_cast<int>((magSq - 4.0) * logMagnitudeScaleFactor), line 79
MagnitudeIndexNoOffset(magSq, scale) == TruncDiv(magSq * scale, MagScaleDen)
MagnitudeIndex(magSq, scale) == TruncDiv((magSq - MagDomainLow) * scale, MagScaleDen)

\* static_cast<int>((logZn - 1.0) * logLogScaleFactor), line 82
LogLogIndex(logZn, scale) == TruncDiv((logZn - FixOne) * scale, FixOne)

\* lines 74-88 of the smooth branch: magSq, the table subscripts and nu
SmoothNu(z_re, z_im, a, magPopulated, logLogPopulated) ==
    LET magSq == z_re * z_re + z_im * z_im
        rawIndex == MagnitudeIndex(magSq, a.logMagnitudeScaleFactor)
        index == ClampIndex(rawIndex)
        logZnLookup == TruncDiv(ReadLogMagnitude(magPopulated, index), 2)
        rawNuIndex == LogLogIndex(logZnLookup, a.logLogScaleFactor)
        nuIndex == ClampIndex(rawNuIndex)
        logZnExact == TruncDiv(Log2Fix(magSq * FixOne), 2)
    IN [magSq |-> magSq,
        rawIndex |-> IF a.useLog2Lookup THEN {rawIndex} ELSE {},
        rawNuIndex |-> IF a.useLog2Lookup THEN {rawNuIndex} ELSE {},
        magSubs |-> IF a.useLog2Lookup THEN {index} ELSE {},
        nuSubs |-> IF a.useLog2Lookup THEN {nuIndex} ELSE {},
        stale |-> a.useLog2Lookup /\ (index >= magPopulated \/ nuIndex >= logLogPopulated),
        nu |-> IF a.useLog2Lookup
               THEN FixDiv(ReadLogLog(logLogPopulated, nuIndex), a.log2_2)
               ELSE FixDiv(Log2Fix(logZnExact), a.log2_2)]

\* lines 90-103 of the smooth branch: the two palette entries and their blend
SmoothBlend(i, n, a, palette) ==
    LET continuousIndex == Max(0, (i + 1) * FixOne - n.nu)
        index1 == continuousIndex \div FixOne
        index2 == AddInt32(index1, 1)
        sub1 == WrapIndex(index1, a.colorOffset, a.maxIterations)
        sub2 == WrapIndex(index2, a.colorOffset, a.maxIterations)
        color1 == PaletteRead(palette, sub1)
        color2 == PaletteRead(palette, sub2)
        fraction == continuousIndex % FixOne
        r == (ColorR(color1) * (FixOne - fraction) + ColorR(color2) * fraction) \div FixOne
        g == (ColorG(color1) * (FixOne - fraction) + ColorG(color2) * fraction) \div FixOne
        b == (ColorB(color1) * (FixOne - fraction) + ColorB(color2) * fraction) \div FixOne
    IN [color |-> ColorRgb(r, g, b), i |-> i, magSq |-> {n.magSq},
        rawIndex |-> n.rawIndex, rawNuIndex |-> n.rawNuIndex,
        magSubs |-> n.magSubs, nuSubs |-> n.nuSubs, stale |-> n.stale,
        branch |-> "smooth", palSubs |-> {sub1, sub2}]

\* lines 74-103, the smooth branch.  The result carries the locals.
SmoothColor(i, z_re, z_im, a, palette, magPopulated, logLogPopulated) ==
    Only({SmoothBlend(i, n, a, palette) :
            n \in {SmoothNu(z_re, z_im, a, magPopulated, logLogPopulated)}})

\* lines 69-106: the colour of a pixel whose loop ended with count i at z
ColorOf(i, z_re, z_im, a, palette, magPopulated, logLogPopulated) ==
    IF IsInterior(i, a.maxIterations)
    THEN [color |-> PaletteRead(palette, a.maxIterations), i |-> i,
          magSq |-> {}, rawIndex |-> {}, rawNuIndex |-> {}, magSubs |-> {}, nuSubs |-> {},
          stale |-> FALSE, branch |-> "interior", palSubs |-> {a.maxIterations}]
    ELSE IF a.smoothColors
    THEN SmoothColor(i, z_re, z_im, a, palette, magPopulated, logLogPopulated)
    ELSE LET sub == WrapIndex(i, a.colorOffset, a.maxIterations)
         IN [color |-> PaletteRead(palette, sub), i |-> i,
             magSq |-> {}, rawIndex |-> {}, rawNuIndex |-> {}, magSubs |-> {}, nuSubs |-> {},
             stale |-> FALSE, branch |-> "discrete", palSubs |-> {sub}]

\* lines 51-67 run to the end from (i, z)
RECURSIVE EscapeLoop(_, _, _, _, _, _, _)
EscapeLoop(i, z_re, z_im, c_re, c_im, maxIterations, escapeRadiusSquared) ==
    IF LoopGuard(i, maxIterations) /\ ~IsEscaped(z_re, z_im, escapeRadiusSquared)
    THEN EscapeLoop(i + 1, NextZre(z_re, z_im, c_re), NextZim(z_re, z_im, c_im),
                    c_re, c_im, maxIterations, escapeRadiusSquared)
    ELSE [i |-> i, z_re |-> z_re, z_im |-> z_im]

\* lines 43-107 as one evaluation
calculate_pixel_color(x, y, a, palette, magPopulated, logLogPopulated) ==
    LET e == EscapeLoop(0, 0, 0, Cre(a.transform, x, y), Cim(a.transform, x, y),
                        a.maxIterations, a.escapeRadiusSquared)
    IN ColorOf(e.i, e.z_re, e.z_im, a, palette, magPopulated, logLogPopulated)

\* ------------------------------------------------------------------ state
VARIABLES
    initPc,            \* initNative: "idle", "mag" (first loop), "loglog" (second loop), "done"
    logMagPopulated,   \* entries of logMagnitudeLookupTable stored so far
    logLogPopulated,   \* entries of logLogLookupTable stored so far
    pc,                \* per thread: "idle", "loop", "iter", "done"
    args,              \* per thread: the scalar arguments of mandelbrotRenderBlock
    colorPalette,      \* per thread: colorPalette_, indices 0..maxIterations
    isPixelSet,        \* per thread: isPixelSet_ ([null |-> TRUE] when absent)
    colorArray,        \* per thread: colorArray_, indices 0..width*height-1
    x, y,              \* per thread: loop counters of lines 144-145
    c_re, c_im,        \* per thread: locals of calculate_pixel_color
    z_re, z_im, i,
    px,                \* per thread: locals of the last colour resolution
    before,            \* history: colorArray at the start of the call
    writes,            \* history: per index, number of stores into colorArray
    outside,           \* history: a store or mask read outside the arrays happened
    steps,             \* history: recurrence steps of the current pixel
    evals,             \* history: calculate_pixel_color invocations of the call
    totalSteps,        \* history: recurrence steps of the call
    initDoneAtStart,   \* history: initNative had returned when the call began
    staleRead,         \* history: the call read a table entry not yet stored
    probe              \* argument/result record of the palette-subscript check

tables == <<initPc, logMagPopulated, logLogPopulated>>
inputs == <<args, colorPalette, isPixelSet, before, initDoneAtStart>>
pixel == <<c_re, c_im, z_re, z_im, i, steps>>
render == <<pc, inputs, colorArray, x, y, pixel, px, writes, outside, evals,
            totalSteps, staleRead>>
vars == <<tables, render, probe>>

\* ----------------------------------------------------------------- inputs
IdentityTransform ==
    [zx_x |-> 1, zx_y |-> 0, zx_c |-> 0, zy_x |-> 0, zy_y |-> 1, zy_c |-> 0]
ShiftedTransform ==
    [zx_x |-> 5, zx_y |-> 0, zx_c |-> -3, zy_x |-> 0, zy_y |-> 1, zy_c |-> -2]
RotatedTransform ==
    [zx_x |-> 0, zx_y |-> -2, zx_c |-> 0, zy_x |-> 1, zy_y |-> 0, zy_c |-> 0]

\* <<blockX, blockY, transform>>
Views ==
    {<<0, 0, IdentityTransform>>, <<1, 2, ShiftedTransform>>, <<0, 0, RotatedTransform>>}

\* <<escapeRadiusSquared, colorOffset>>
RadiusAndOffset == {<<4, 0>>, <<4, -5>>, <<1, 0>>}

\* the scale factors of the two table domains: 65535/32 (as n/32) and
\* 65535/1.585 (to the integer below)
StdMagScale == TableLast
StdLogLogScale == (TableLast * 1000) \div 1585
\* <<smoothColors, useLog2Lookup, logMagnitudeScaleFactor * 32, logLogScaleFactor>>
ColorModes ==
    {<<FALSE, FALSE, StdMagScale, StdLogLogScale>>,
     <<FALSE, TRUE, StdMagScale, StdLogLogScale>>,
     <<TRUE, FALSE, StdMagScale, StdLogLogScale>>,
     <<TRUE, TRUE, StdMagScale, StdLogLogScale>>,
     <<TRUE, TRUE, 4 * StdMagScale, -StdLogLogScale>>}

PaletteOf(n) == [k \in 0..n |-> ColorRgb((k * 40 + 10) % 256, (200 - k * 60) % 256, (k * 90) % 256)]
FilledArray(n) == [k \in 0..(n - 1) |-> ColorRgb(k + 1, 7, 9)]
NullMask == [a |-> <<>>, null |-> TRUE]
MaskKinds == {"null", "even"}
MaskOf(kind, n) ==
    CASE kind = "null" -> NullMask
      [] kind = "even" -> [a |-> [k \in 0..(n - 1) |-> k % 2 = 0], null |-> FALSE]

CallArgs(w, h, v, n, ro, m) ==
    [colorOffset |-> ro[2], maxIterations |-> n, escapeRadiusSquared |-> ro[1],
     logMagnitudeScaleFactor |-> m[3], logLogScaleFactor |-> m[4],
     useLog2Lookup |-> m[2], log2_2 |-> FixOne, smoothColors |-> m[1],
     transform |-> v[3], currentBlockHeight |-> h, currentBlockWidth |-> w,
     blockX |-> v[1], blockY |-> v[2]]

\* ------------------------------------------------------------- initNative
NoArgs == CallArgs(0, 0, <<0, 0, IdentityTransform>>, 1, <<4, 0>>, <<FALSE, FALSE, 0, 0>>)
NoPx == [color |-> 0, i |-> 0, magSq |-> {}, rawIndex |-> {}, rawNuIndex |-> {},
         magSubs |-> {}, nuSubs |-> {}, stale |-> FALSE, branch |-> "none", palSubs |-> {}]
NoProbe == [k |-> 0, colorOffset |-> 0, maxIterations |-> 1, sub |-> 0, subNext |-> 0,
            done |-> FALSE]

Init ==
    /\ initPc = "idle"
    /\ logMagPopulated = 0
    /\ logLogPopulated = 0
    /\ pc = [t \in Threads |-> "idle"]
    /\ args = [t \in Threads |-> NoArgs]
    /\ colorPalette = [t \in Threads |-> <<>>]
    /\ isPixelSet = [t \in Threads |-> NullMask]
    /\ colorArray = [t \in Threads |-> <<>>]
    /\ x = [t \in Threads |-> 0]
    /\ y = [t \in Threads |-> 0]
    /\ c_re = [t \in Threads |-> 0]
    /\ c_im = [t \in Threads |-> 0]
    /\ z_re = [t \in Threads |-> 0]
    /\ z_im = [t \in Threads |-> 0]
    /\ i = [t \in Threads |-> 0]
    /\ px = [t \in Threads |-> NoPx]
    /\ before = [t \in Threads |-> <<>>]
    /\ writes = [t \in Threads |-> <<>>]
    /\ outside = [t \in Threads |-> FALSE]
    /\ steps = [t \in Threads |-> 0]
    /\ evals = [t \in Threads |-> 0]
    /\ totalSteps = [t \in Threads |-> 0]
    /\ initDoneAtStart = [t \in Threads |-> FALSE]
    /\ staleRead = [t \in Threads |-> FALSE]
    /\ probe = NoProbe

\* i < 65536, lines 32 and 36
InitLoopGuardShort(n) == n < InitChunk
InitLoopGuard(n) == n < TableSize

\* the host calls initNative, line 29
InitNativeCall ==
    /\ initPc = "idle"
    /\ initPc' = "mag"
    /\ UNCHANGED <<logMagPopulated, logLogPopulated, render, probe>>

\* lines 32-35: InitChunk iterations of the first loop
InitMagnitudeStep ==
    /\ initPc = "mag"
    /\ InitLoopGuard(logMagPopulated)
    /\ logMagPopulated' = Min(logMagPopulated + InitChunk, TableSize)
    /\ initPc' = IF InitLoopGuard(logMagPopulated') THEN "mag" ELSE "loglog"
    /\ UNCHANGED <<logLogPopulated, render, probe>>

\* lines 36-39: InitChunk iterations of the second loop, then the return
InitLogLogStep ==
    /\ initPc = "loglog"
    /\ InitLoopGuard(logLogPopulated)
    /\ logLogPopulated' = Min(logLogPopulated + InitChunk, TableSize)
    /\ initPc' = IF InitLoopGuard(logLogPopulated') THEN "loglog" ELSE "done"
    /\ UNCHANGED <<logMagPopulated, render, probe>>

\* ------------------------------------------------- mandelbrotRenderBlock
\* int index = y * currentBlockWidth + x;  line 146
PixelIndex(a, px_x, px_y) == px_y * a.currentBlockWidth + px_x

\* isPixelSet == nullptr || !isPixelSet[index], line 147
ShouldRenderAlways(mask, index) == TRUE
ShouldRender(mask, index) ==
    mask.null \/ ~(IF index \in DOMAIN mask.a THEN mask.a[index] ELSE FALSE)

\* blockX + x, blockY + y, line 149
AbsXLocal(a, px_x) == px_x
AbsX(a, px_x) == a.blockX + px_x
AbsY(a, px_y) == a.blockY + px_y

\* entry, lines 136-142 and the loop initialisation of line 144
BeginRender(t, a, kind) ==
    /\ pc[t] = "idle"
    /\ pc' = [pc EXCEPT ![t] = "loop"]
    /\ args' = [args EXCEPT ![t] = a]
    /\ colorPalette' = [colorPalette EXCEPT ![t] = PaletteOf(a.maxIterations)]
    /\ isPixelSet' = [isPixelSet EXCEPT
                        ![t] = MaskOf(kind, a.currentBlockWidth * a.currentBlockHeight)]
    /\ colorArray' = [colorArray EXCEPT
                        ![t] = FilledArray(a.currentBlockWidth * a.currentBlockHeight)]
    /\ before' = [before EXCEPT
                        ![t] = FilledArray(a.currentBlockWidth * a.currentBlockHeight)]
    /\ writes' = [writes EXCEPT
                        ![t] = [k \in 0..(a.currentBlockWidth * a.currentBlockHeight - 1) |-> 0]]
    /\ x' = [x EXCEPT ![t] = 0]
    /\ y' = [y EXCEPT ![t] = 0]
    /\ initDoneAtStart' = [initDoneAtStart EXCEPT ![t] = (initPc = "done")]
    /\ UNCHANGED <<tables, pixel, px, outside, evals, totalSteps, staleRead, probe>>

\* a call with arguments drawn from the grid of small inputs
BeginGridRender(t) ==
    \E w \in 1..MaxBlockWidth, h \in 1..MaxBlockHeight, v \in Views, n \in 1..MaxIter,
       ro \in RadiusAndOffset, m \in ColorModes, kind \in MaskKinds :
        BeginRender(t, CallArgs(w, h, v, n, ro, m), kind)

\* the interior-point scenario as a call: maxIterations = 50 and c = 0+0i at
\* pixel (0, 0)
BeginScenarioRender(t) ==
    \E m \in ColorModes :
        BeginRender(t, CallArgs(1, 1, <<0, 0, IdentityTransform>>, 50, <<4, 0>>, m),
                    "null")

\* x == currentBlockWidth: the inner loop ends, y++, line 144
RowEnd(t) ==
    /\ pc[t] = "loop"
    /\ y[t] < args[t].currentBlockHeight
    /\ x[t] >= args[t].currentBlockWidth
    /\ y' = [y EXCEPT ![t] = y[t] + 1]
    /\ x' = [x EXCEPT ![t] = 0]
    /\ UNCHANGED <<tables, pc, inputs, colorArray, pixel, px, writes, outside, evals,
                   totalSteps, staleRead, probe>>

\* the pixel is flagged in the mask: nothing is stored, x++, lines 147, 145
SkipPixel(t) ==
    /\ pc[t] = "loop"
    /\ y[t] < args[t].currentBlockHeight
    /\ x[t] < args[t].currentBlockWidth
    /\ ~ShouldRender(isPixelSet[t], PixelIndex(args[t], x[t], y[t]))
    /\ x' = [x EXCEPT ![t] = x[t] + 1]
    /\ UNCHANGED <<tables, pc, inputs, colorArray, y, pixel, px, writes, outside, evals,
                   totalSteps, staleRead, probe>>

\* the pixel is to be rendered: calculate_pixel_color is entered, lines 48-54
StartPixel(t) ==
    /\ pc[t] = "loop"
    /\ y[t] < args[t].currentBlockHeight
    /\ x[t] < args[t].currentBlockWidth
    /\ ShouldRender(isPixelSet[t], PixelIndex(args[t], x[t], y[t]))
    /\ pc' = [pc EXCEPT ![t] = "iter"]
    /\ c_re' = [c_re EXCEPT ![t] = Cre(args[t].transform, AbsX(args[t], x[t]), AbsY(args[t], y[t]))]
    /\ c_im' = [c_im EXCEPT ![t] = Cim(args[t].transform, AbsX(args[t], x[t]), AbsY(args[t], y[t]))]
    /\ z_re' = [z_re EXCEPT ![t] = 0]
    /\ z_im' = [z_im EXCEPT ![t] = 0]
    /\ i' = [i EXCEPT ![t] = 0]
    /\ steps' = [steps EXCEPT ![t] = 0]
    /\ evals' = [evals EXCEPT ![t] = evals[t] + 1]
    /\ outside' = [outside EXCEPT
                     ![t] = outside[t] \/ (~isPixelSet[t].null /\
                              PixelIndex(args[t], x[t], y[t]) \notin DOMAIN isPixelSet[t].a)]
    /\ UNCHANGED <<tables, inputs, colorArray, x, y, px, writes, totalSteps, staleRead, probe>>

\* one pass of the while loop that does not break, lines 55-66
IterStep(t) ==
    /\ pc[t] = "iter"
    /\ LoopGuard(i[t], args[t].maxIterations)
    /\ ~IsEscaped(z_re[t], z_im[t], args[t].escapeRadiusSquared)
    /\ z_re' = [z_re EXCEPT ![t] = NextZre(z_re[t], z_im[t], c_re[t])]
    /\ z_im' = [z_im EXCEPT ![t] = NextZim(z_re[t], z_im[t], c_im[t])]
    /\ i' = [i EXCEPT ![t] = i[t] + 1]
    /\ steps' = [steps EXCEPT ![t] = steps[t] + 1]
    /\ totalSteps' = [totalSteps EXCEPT ![t] = totalSteps[t] + 1]
    /\ UNCHANGED <<tables, pc, inputs, colorArray, x, y, c_re, c_im, px, writes, outside,
                   evals, staleRead, probe>>

\* the loop ends (guard false or break), the colour is resolved and stored
\* into colorArray[index], x++; lines 59-60, 69-106, 148, 145
ResolveColor(t) ==
    /\ pc[t] = "iter"
    /\ ~LoopGuard(i[t], args[t].maxIterations)
          \/ IsEscaped(z_re[t], z_im[t], args[t].escapeRadiusSquared)
    /\ LET index == PixelIndex(args[t], x[t], y[t])
           r == ColorOf(i[t], z_re[t], z_im[t], args[t], colorPalette[t],
                        logMagPopulated, logLogPopulated)
       IN /\ px' = [px EXCEPT ![t] = r]
          /\ colorArray' = [colorArray EXCEPT
                ![t] = IF index \in DOMAIN colorArray[t]
                       THEN [colorArray[t] EXCEPT ![index] = r.color]
                       ELSE colorArray[t]]
          /\ writes' = [writes EXCEPT
                ![t] = IF index \in DOMAIN writes[t]
                       THEN [writes[t] EXCEPT ![index] = writes[t][index] + 1]
                       ELSE writes[t]]
          /\ outside' = [outside EXCEPT ![t] = outside[t] \/ index \notin DOMAIN colorArray[t]]
          /\ staleRead' = [staleRead EXCEPT ![t] = staleRead[t] \/ r.stale]
    /\ pc' = [pc EXCEPT ![t] = "loop"]
    /\ x' = [x EXCEPT ![t] = x[t] + 1]
    /\ UNCHANGED <<tables, inputs, y, pixel, evals, totalSteps, probe>>

\* y == currentBlockHeight: the arrays are released and the call returns
Release(t) ==
    /\ pc[t] = "loop"
    /\ y[t] >= args[t].currentBlockHeight
    /\ pc' = [pc EXCEPT ![t] = "done"]
    /\ UNCHANGED <<tables, inputs, colorArray, x, y, pixel, px, writes, outside, evals,
                   totalSteps, staleRead, probe>>

RenderStep(t) ==
    \/ RowEnd(t)
    \/ SkipPixel(t)
    \/ StartPixel(t)
    \/ IterStep(t)
    \/ ResolveColor(t)
    \/ Release(t)

InitNative ==
    \/ InitNativeCall
    \/ InitMagnitudeStep
    \/ InitLogLogStep

\* one host thread renders while initNative may run
Next ==
    \/ InitNative
    \/ BeginGridRender(1)
    \/ BeginScenarioRender(1)
    \/ RenderStep(1)

Spec == Init /\ [][Next]_vars

\* A render call contains no blocking operation, so the thread that runs it
\* always takes its next step: weak fairness of RenderStep.  The calls of this
\* specification use the standard scale factors and colorOffset = 0.
BeginFairRender(t) ==
    \E w \in 1..MaxBlockWidth, h \in 1..MaxBlockHeight, v \in Views, n \in 1..MaxIter,
       kind \in MaskKinds,
       m \in {<<TRUE, TRUE, StdMagScale, StdLogLogScale>>,
              <<FALSE, FALSE, StdMagScale, StdLogLogScale>>} :
        BeginRender(t, CallArgs(w, h, v, n, <<4, 0>>, m), kind)

NextFair ==
    \/ InitNative
    \/ BeginFairRender(1)
    \/ RenderStep(1)

LiveSpec == Init /\ [][NextFair]_vars /\ WF_vars(RenderStep(1))

\* ------------------------------------------------ concurrent render calls
\* both host threads call the render entry point, smooth with table lookup
\* or discrete, on a block of two pixels with maxIterations = 3
BeginConcurrentRender(t) ==
    \E d \in {<<2, 1>>, <<1, 2>>}, v \in Views, kind \in MaskKinds,
       m \in {<<TRUE, TRUE, StdMagScale, StdLogLogScale>>,
              <<FALSE, FALSE, StdMagScale, StdLogLogScale>>} :
        BeginRender(t, CallArgs(d[1], d[2], v, 3, <<4, 0>>, m), kind)

NextConc ==
    \/ InitNative
    \/ \E t \in Threads : BeginConcurrentRender(t)
    \/ \E t \in Threads : RenderStep(t)

SpecConc == Init /\ [][NextConc]_vars

\* ------------------------------------------- the palette subscript alone
\* iteration counts k < maxIterations, offsets and caps up to the ends of jint
ProbeCounts == {0, 1, 2, 1000, 2 ^ 30}
ProbeOffsets ==
    {INT_MIN, -(2 ^ 30) - 1, -7, -1, 0, 1, 5, 2 ^ 30 - 1, 2 ^ 30, INT_MAX}
\* maxIterations + 1 is the length of a Java int array, at most 2^31 - 1
ProbeCaps == {1, 2, 3, 7, 2 ^ 30, 2 ^ 30 + 1, INT_MAX - 1}

InitIndex ==
    /\ initPc = "idle"
    /\ logMagPopulated = 0
    /\ logLogPopulated = 0
    /\ pc = [t \in Threads |-> "idle"]
    /\ args = [t \in Threads |-> NoArgs]
    /\ colorPalette = [t \in Threads |-> <<>>]
    /\ isPixelSet = [t \in Threads |-> NullMask]
    /\ colorArray = [t \in Threads |-> <<>>]
    /\ x = [t \in Threads |-> 0]
    /\ y = [t \in Threads |-> 0]
    /\ c_re = [t \in Threads |-> 0]
    /\ c_im = [t \in Threads |-> 0]
    /\ z_re = [t \in Threads |-> 0]
    /\ z_im = [t \in Threads |-> 0]
    /\ i = [t \in Threads |-> 0]
    /\ px = [t \in Threads |-> NoPx]
    /\ before = [t \in Threads |-> <<>>]
    /\ writes = [t \in Threads |-> <<>>]
    /\ outside = [t \in Threads |-> FALSE]
    /\ steps = [t \in Threads |-> 0]
    /\ evals = [t \in Threads |-> 0]
    /\ totalSteps = [t \in Threads |-> 0]
    /\ initDoneAtStart = [t \in Threads |-> FALSE]
    /\ staleRead = [t \in Threads |-> FALSE]
    /\ probe \in [k : ProbeCounts, colorOffset : ProbeOffsets, maxIterations : ProbeCaps,
                  sub : {0}, subNext : {0}, done : {FALSE}]
    /\ probe.k < probe.maxIterations

\* the subscript expressions of lines 95, 96 and 105 applied to the inputs:
\* sub for the count k, subNext for k + 1
ApplyWrapIndex ==
    /\ ~probe.done
    /\ probe' = [probe EXCEPT
                    !.sub = WrapIndex(probe.k, probe.colorOffset, probe.maxIterations),
                    !.subNext = WrapIndex(AddInt32(probe.k, 1), probe.colorOffset,
                                          probe.maxIterations),
                    !.done = TRUE]
    /\ UNCHANGED <<tables, render>>

SpecIndex == InitIndex /\ [][ApplyWrapIndex]_vars

\* ----------------------------------------------------------------- claims
\* the locals in px[t], c_re[t], c_im[t], i[t] belong to one resolved pixel
Resolved(t) == pc[t] \in {"loop", "done"} /\ px[t].branch # "none"

Width(t) == args[t].currentBlockWidth
Height(t) == args[t].currentBlockHeight
Pixels(t) == 0..(Width(t) * Height(t) - 1)
Flagged(t, k) == ~isPixelSet[t].null /\ isPixelSet[t].a[k]

\* C1: with a non-null skip mask, every index whose mask entry is true holds,
\* during and after the call, the value the output buffer held before it.
C1_SkipMaskHonoured ==
    \A t \in Threads :
        (pc[t] # "idle" /\ ~isPixelSet[t].null) =>
            \A k \in Pixels(t) : isPixelSet[t].a[k] => colorArray[t][k] = before[t][k]

C1_Witness ==
    /\ pc[1] = "done"
    /\ ~isPixelSet[1].null
    /\ \E k \in Pixels(1) : isPixelSet[1].a[k] /\ colorArray[1][k] = before[1][k]
    /\ \E k \in Pixels(1) : ~isPixelSet[1].a[k] /\ colorArray[1][k] # before[1][k]

\* C2: every unflagged pixel (x, y) of the block receives, at row-major index
\* y*blockWidth + x, the colour calculate_pixel_color gives for the absolute
\* coordinates (blockX + x, blockY + y); a store changes that index only, each
\* such index is stored exactly once, flagged ones never, and no store falls
\* outside [0, blockWidth*blockHeight).
C2_StoreCounts ==
    \A t \in Threads :
        /\ ~outside[t]
        /\ pc[t] # "idle" => DOMAIN colorArray[t] = Pixels(t)
        /\ \A k \in DOMAIN writes[t] : writes[t][k] <= 1
        /\ pc[t] = "done" =>
              \A k \in Pixels(t) : writes[t][k] = IF Flagged(t, k) THEN 0 ELSE 1

C2_Store ==
    \A t \in Threads :
        (colorArray'[t] # colorArray[t] /\ pc[t] = "iter") =>
            LET k == y[t] * Width(t) + x[t]
            IN /\ 0 <= x[t] /\ x[t] < Width(t)
               /\ 0 <= y[t] /\ y[t] < Height(t)
               /\ ~Flagged(t, k)
               /\ colorArray'[t] =
                    [colorArray[t] EXCEPT
                       ![k] = calculate_pixel_color(args[t].blockX + x[t], args[t].blockY + y[t],
                                  args[t], colorPalette[t], logMagPopulated,
                                  logLogPopulated).color]

C2_RowMajorStore == [](C2_StoreCounts) /\ [][C2_Store]_vars

C2_Witness ==
    /\ pc[1] = "done"
    /\ Width(1) = 2 /\ Height(1) = 2
    /\ args[1].blockX = 1 /\ args[1].blockY = 2
    /\ ~isPixelSet[1].null
    /\ writes[1] = [k \in Pixels(1) |-> IF k % 2 = 0 THEN 0 ELSE 1]
    /\ colorArray[1][3] # before[1][3]

\* C3: a pixel whose loop ended with i = maxIterations gets exactly
\* palette[maxIterations], whatever smoothColors, useLog2Lookup, colorOffset and
\* the scale factors are, and the smooth branch is not entered for it.
C3_InteriorColour ==
    \A t \in Threads :
        (Resolved(t) /\ i[t] = args[t].maxIterations) =>
            /\ px[t].branch = "interior"
            /\ px[t].color = colorPalette[t][args[t].maxIterations]
            /\ px[t].magSq = {}

C3_Witness ==
    /\ Resolved(1)
    /\ i[1] = args[1].maxIterations
    /\ args[1].smoothColors /\ args[1].useLog2Lookup
    /\ args[1].colorOffset # 0
    /\ px[1].color = colorPalette[1][args[1].maxIterations]
    /\ colorArray[1][0] = px[1].color

\* C5: on the useLog2Lookup path both table subscripts are in [0, 65535] at
\* every table read, also when the unclamped value is negative or above 65535.
C5_TableSubscripts ==
    \A t \in Threads :
        /\ px[t].magSubs \subseteq 0..TableLast
        /\ px[t].nuSubs \subseteq 0..TableLast
        /\ (px[t].branch = "smooth" /\ args[t].useLog2Lookup) =>
              px[t].magSubs # {} /\ px[t].nuSubs # {}

C5_Witness ==
    /\ Resolved(1)
    /\ px[1].branch = "smooth" /\ args[1].useLog2Lookup
    /\ \E r \in px[1].rawIndex : r > TableLast
    /\ \E r \in px[1].rawNuIndex : r < 0

C5_WitnessNegativeMagnitude ==
    /\ Resolved(1)
    /\ px[1].branch = "smooth" /\ args[1].useLog2Lookup
    /\ \E r \in px[1].rawIndex : r < 0

\* C7 as stated: with escapeRadiusSquared = 4, maxIterations > 1 and c = 2+0i
\* the pixel escapes with iteration count 1, and with smoothColors = false and
\* colorOffset = 0 the colour is palette[1 mod maxIterations].
C7_Scenario(t) ==
    /\ Resolved(t)
    /\ args[t].escapeRadiusSquared = 4
    /\ c_re[t] = 2 /\ c_im[t] = 0

C7_EscapesAtOne ==
    \A t \in Threads :
        (C7_Scenario(t) /\ args[t].maxIterations > 1) =>
            /\ i[t] = 1
            /\ (~args[t].smoothColors /\ args[t].colorOffset = 0) =>
                  px[t].color = colorPalette[t][1 % args[t].maxIterations]

\* C7 amended: with escapeRadiusSquared = 4, maxIterations > 1 and c = 2+0i the
\* test after the first step sees |z|^2 = 4, which is not > 4, and the loop ends
\* with iteration count 2; for maxIterations > 2 the pixel has escaped and with
\* smoothColors = false and colorOffset = 0 the colour is
\* palette[2 mod maxIterations].
C7_EscapesAtTwo ==
    \A t \in Threads :
        (C7_Scenario(t) /\ args[t].maxIterations > 1) =>
            /\ i[t] = 2
            /\ z_re[t] = 6 /\ z_im[t] = 0
            /\ args[t].maxIterations > 2 =>
                  /\ px[t].branch # "interior"
                  /\ (~args[t].smoothColors /\ args[t].colorOffset = 0) =>
                        px[t].color = colorPalette[t][2 % args[t].maxIterations]

C7_Witness ==
    /\ C7_Scenario(1)
    /\ args[1].maxIterations > 2
    /\ ~args[1].smoothColors /\ args[1].colorOffset = 0
    /\ i[1] = 2
    /\ px[1].branch = "discrete"

\* the orbit z_0 = 0, z_{k+1} = z_k^2 + c, as far as its first escaped iterate
ComplexSquare(z) == <<z[1] * z[1] - z[2] * z[2], 2 * z[1] * z[2]>>
NormSquared(z) == z[1] * z[1] + z[2] * z[2]
RECURSIVE OrbitPrefix(_, _, _, _)
OrbitPrefix(orbit, c, n, radiusSquared) ==
    LET last == orbit[Len(orbit)]
    IN IF Len(orbit) = n + 1 \/ NormSquared(last) > radiusSquared
       THEN orbit
       ELSE OrbitPrefix(Append(orbit, <<ComplexSquare(last)[1] + c[1],
                                        ComplexSquare(last)[2] + c[2]>>),
                        c, n, radiusSquared)

\* z_k is orbit[k + 1]
EscapeCounts(c, n, radiusSquared) ==
    LET orbit == OrbitPrefix(<< <<0, 0>> >>, c, n, radiusSquared)
    IN {k \in 0..(n - 1) : k + 1 <= Len(orbit) /\ NormSquared(orbit[k + 1]) > radiusSquared}

LeastOf(S) == CHOOSE k \in S : \A j \in S : k <= j

\* C8: the iteration count is the least k in [0, maxIterations) with
\* |z_k|^2 > escapeRadiusSquared (strict, on the iterate before it is advanced),
\* and maxIterations when there is none, after exactly maxIterations recurrence
\* steps; c = 0+0i with maxIterations = 50 gives count 50 and palette[50].
C8_TestBeforeStep ==
    \A t \in Threads :
        Resolved(t) =>
            LET E == EscapeCounts(<<c_re[t], c_im[t]>>, args[t].maxIterations,
                                  args[t].escapeRadiusSquared)
            IN /\ E # {} => (i[t] = LeastOf(E) /\ steps[t] = LeastOf(E))
               /\ E = {} => (i[t] = args[t].maxIterations /\ steps[t] = args[t].maxIterations)
               /\ (c_re[t] = 0 /\ c_im[t] = 0 /\ args[t].maxIterations = 50) =>
                     (i[t] = 50 /\ px[t].color = colorPalette[t][50])

C8_Witness ==
    /\ Resolved(1)
    /\ c_re[1] = 0 /\ c_im[1] = 0
    /\ args[1].maxIterations = 50
    /\ i[1] = 50
    /\ steps[1] = 50
    /\ colorArray[1][0] = colorPalette[1][50]

C8_WitnessBoundary ==
    /\ Resolved(1)
    /\ c_re[1] = -2 /\ c_im[1] = 0
    /\ args[1].escapeRadiusSquared = 4
    /\ i[1] = args[1].maxIterations

\* C10 as stated: with escapeRadiusSquared = 4 every escaped pixel has
\* 4 <= magSq <= 36 in the smooth branch, so with logMagnitudeScaleFactor =
\* 65535/32 the unclamped magnitude index lies in [0, 65535].
C10_Escaped(t) ==
    /\ Resolved(t)
    /\ args[t].escapeRadiusSquared = 4
    /\ px[t].branch = "smooth"

C10_WitnessFar ==
    /\ C10_Escaped(1)
    /\ args[1].useLog2Lookup /\ args[1].logMagnitudeScaleFactor = StdMagScale
    /\ px[1].magSq = {49}
    /\ px[1].magSubs = {TableLast}

\* C4 as stated: ((k + colorOffset) % maxIterations + maxIterations) %
\* maxIterations in 32-bit signed arithmetic is in [0, maxIterations) for any
\* maxIterations >= 1, any count k and any 32-bit colorOffset, for the discrete
\* subscript and for the smooth subscripts of index1 and index1 + 1.
C4_SubscriptInRange ==
    probe.done =>
        /\ 0 <= probe.sub /\ probe.sub < probe.maxIterations
        /\ 0 <= probe.subNext /\ probe.subNext < probe.maxIterations

\* C6: the escape loop of a pixel performs at most maxIterations recurrence
\* steps, a call performs at most blockWidth*blockHeight pixel evaluations and
\* at most blockWidth*blockHeight*maxIterations recurrence steps, and a call
\* that has begun runs to completion.
C6_Bounded ==
    \A t \in Threads :
        pc[t] # "idle" =>
            /\ steps[t] <= args[t].maxIterations
            /\ i[t] <= args[t].maxIterations
            /\ evals[t] <= Width(t) * Height(t)
            /\ totalSteps[t] <= Width(t) * Height(t) * args[t].maxIterations

C6_Terminates == [](C6_Bounded) /\ ((pc[1] # "idle") ~> (pc[1] = "done"))

C6_Witness ==
    /\ pc[1] = "done"
    /\ args[1].maxIterations >= 2
    /\ evals[1] = 4
    /\ totalSteps[1] = 4 * args[1].maxIterations

\* the output buffer of call t when the call runs alone after initNative
RenderAlone(t) ==
    [k \in Pixels(t) |->
        IF Flagged(t, k)
        THEN before[t][k]
        ELSE calculate_pixel_color(args[t].blockX + (k % Width(t)),
                                   args[t].blockY + (k \div Width(t)),
                                   args[t], colorPalette[t], TableSize, TableSize).color]

\* C9: render calls running concurrently on their own output buffers never
\* write a lookup table, the palette or the skip mask, the tables are written
\* by initNative only, a call that began after initNative returned ends with
\* the output buffer it produces when run alone, and a call reads a table
\* entry not yet stored only if it began before initNative had returned.
C9_State ==
    \A t \in Threads :
        /\ (pc[t] = "done" /\ initDoneAtStart[t]) => colorArray[t] = RenderAlone(t)
        /\ staleRead[t] => ~initDoneAtStart[t]

C9_Step ==
    /\ (<<logMagPopulated, logLogPopulated>>' # <<logMagPopulated, logLogPopulated>>) =>
            (initPc \in {"mag", "loglog"} /\ pc' = pc /\ colorArray' = colorArray)
    /\ \A t \in Threads :
            /\ pc[t] # "idle" =>
                  (colorPalette'[t] = colorPalette[t] /\ isPixelSet'[t] = isPixelSet[t])
            /\ \A u \in Threads \ {t} :
                  (pc'[t] # pc[t] \/ x'[t] # x[t]) => colorArray'[u] = colorArray[u]

C9_ConcurrentRenders == [](C9_State) /\ [][C9_Step]_vars

C9_Witness ==
    /\ initDoneAtStart[1] /\ initDoneAtStart[2]
    /\ pc[1] = "done" /\ pc[2] = "iter"
    /\ args[1].useLog2Lookup /\ args[2].useLog2Lookup
    /\ px[1].magSubs # {} /\ px[2].magSubs # {}
    /\ colorArray[1] # before[1] /\ colorArray[2] # before[2]
    /\ colorArray[1] = RenderAlone(1)

C9_WitnessOverlap ==
    /\ ~initDoneAtStart[1] /\ staleRead[1]
    /\ pc[1] = "done" /\ pc[2] = "done"
    /\ initDoneAtStart[2]
    /\ colorArray[1] # RenderAlone(1)

====
